---- MODULE Spec2Model ----
(***************************************************************************)
(* Cantilever retaining wall calculator (python-retainingwall).            *)
(*                                                                         *)
(* The analysis pipeline of calculate_retaining_wall: parameter merge,     *)
(* unit conversion, geometry, the stability engine with its one-shot       *)
(* shear-key re-run.  Python floats are modelled in fixed point:           *)
(*   physical quantities (lengths, forces, pressures, moments, unit        *)
(*   weights, degrees, factors of safety) are integers scaled by Scale,    *)
(*   earth pressure coefficients and trigonometric values by KScale.       *)
(* Every product and quotient rounds down to the scale; TLC integers are   *)
(* 32 bit wide, so products are taken piecewise.                           *)
(***************************************************************************)
EXTENDS Integers, Sequences, FiniteSets, TLC

(***************************************************************************)
(* Fixed-point arithmetic                                                  *)
(***************************************************************************)
Scale == 10^3
KScale == 10^6

Abs(x) == IF x < 0 THEN -x ELSE x

\* F applied to the value of v.  TLC evaluates an operator's argument anew at
\* each place the body names it; a bound variable holds the value.
Let(v, F(_)) == CHOOSE y \in { F(x) : x \in {v} } : TRUE

\* floor(a*b/m) without forming a*b
MulDivM(a, b, m) ==
    LET a1 == a \div m
        a0 == a % m
        b1 == b \div m
        b0 == b % m
    IN  a1 * b1 * m + a1 * b0 + a0 * b1 + ((a0 * b0) \div m)

\* floor(a*b/(m*m)) without forming a*b
MulDivSq(a, b, m) ==
    LET a1 == a \div m
        a0 == a % m
        b1 == b \div m
        b0 == b % m
    IN  a1 * b1 + ((a1 * b0 + a0 * b1 + ((a0 * b0) \div m)) \div m)

\* product of two physical quantities
Mul(a, b) == Let(<<a, b>>, LAMBDA x : MulDivM(x[1], x[2], Scale))

\* product of a physical quantity (or a coefficient) with a coefficient
MulK(a, k) == Let(<<a, k>>, LAMBDA x : MulDivSq(x[1], x[2], Scale))

\* floor(a * 10^digits / b) by long division, b > 0
RECURSIVE LongDiv(_, _, _)
LongDiv(a, b, digits) ==
    IF digits = 0 THEN a \div b
    ELSE (a \div b) * 10^digits + LongDiv((a % b) * 10, b, digits - 1)

\* quotient of two quantities of the same scale, a / b with b # 0
DivTo(a, b, digits) ==
    Let(<<a, b>>, LAMBDA x : IF x[2] > 0 THEN LongDiv(x[1], x[2], digits)
                             ELSE LongDiv(-x[1], -x[2], digits))

\* quotient as a physical quantity
Div(a, b) == DivTo(a, b, 3)

\* quotient as a coefficient
DivK(a, b) == DivTo(a, b, 6)

(***************************************************************************)
(* math library: radians, sin, cos, tan, sqrt on coefficients (KScale)     *)
(***************************************************************************)
\* math.radians of an angle given in degrees (Scale): deg * pi / 180
Radians(deg) == MulK(deg, 17453293)

QuarterPi == 785398

\* Taylor polynomial in x^2, Horner form; x in [0, pi/2]
SinPoly(x) ==
    LET x2 == MulK(x, x)
        t6 == KScale - (x2 \div 156)
        t5 == KScale - MulK(x2, t6) \div 110
        t4 == KScale - MulK(x2, t5) \div 72
        t3 == KScale - MulK(x2, t4) \div 42
        t2 == KScale - MulK(x2, t3) \div 20
        t1 == KScale - MulK(x2, t2) \div 6
    IN  MulK(x, t1)

Sin(x) == Let(x, LAMBDA v : SinPoly(v))

CosPoly(x) ==
    LET x2 == MulK(x, x)
        t6 == KScale - (x2 \div 132)
        t5 == KScale - MulK(x2, t6) \div 90
        t4 == KScale - MulK(x2, t5) \div 56
        t3 == KScale - MulK(x2, t4) \div 30
        t2 == KScale - MulK(x2, t3) \div 12
        t1 == KScale - MulK(x2, t2) \div 2
    IN  t1

Cos(x) == Let(x, LAMBDA v : CosPoly(v))

Tan(x) == Let(x, LAMBDA v : DivK(Sin(v), Cos(v)))

\* math.sqrt of a coefficient v >= 0: Newton steps from the integer root
RECURSIVE ISqrtFrom(_, _)
ISqrtFrom(n, r) ==
    IF r * r <= n /\ (r + 1) * (r + 1) > n THEN r
    ELSE IF r * r > n THEN ISqrtFrom(n, r - 1) ELSE ISqrtFrom(n, r + 1)

RECURSIVE NewtonRoot(_, _)
NewtonRoot(n, r) ==
    Let((r + n \div r) \div 2, LAMBDA r2 : IF r2 >= r THEN r ELSE NewtonRoot(n, r2))

ISqrt(n) == IF n = 0 THEN 0 ELSE ISqrtFrom(n, NewtonRoot(n, n))

Sqrt(v) ==
    Let(v, LAMBDA n :
        IF n = 0 THEN 0
        ELSE Let(ISqrt(n) * Scale, LAMBDA r0 :
             Let((r0 + DivK(n, r0)) \div 2, LAMBDA r1 : (r1 + DivK(n, r1)) \div 2)))

(***************************************************************************)
(* parameters.py: defaults and reference tables                            *)
(***************************************************************************)
default_params ==
    [ units |-> "metric",
      wall_height_m |-> 5000,
      foundation_depth_m |-> 1000,
      toe_length_m |-> 1500,
      heel_length_m |-> 2500,
      wall_top_width_m |-> 300,
      wall_base_width_m |-> 600,
      wall_material |-> "concrete",
      slab_material |-> "concrete",
      face_wall_position |-> "toe_side",
      active_soil_type |-> "ordinary_soil",
      passive_soil_type |-> "ordinary_soil",
      groundwater_level_m_below_base |-> 1000,
      shear_key_used |-> FALSE,
      shear_key_position |-> "under_wall",
      shear_key_depth_m |-> 500,
      shear_key_width_m |-> 500,
      output_html |-> FALSE,
      active_side_ground_elevation_m |-> 5000,
      passive_side_ground_elevation_m |-> 0,
      point_load_kn |-> 0,
      point_load_distance_from_wall_m |-> 1000,
      surcharge_load_kpa |-> 0,
      foundation_lower_than_passive_side_m |-> 0 ]

\* initial value of the module-level soil table
soil_properties_initial ==
    [ ordinary_soil |->
        [ unit_weight_kn_m3 |-> 18000, friction_angle_deg |-> 30000,
          cohesion_kpa |-> 0, allowable_bearing_pressure_kpa |-> 150000 ],
      loose_backfill_soil |->
        [ unit_weight_kn_m3 |-> 16000, friction_angle_deg |-> 25000,
          cohesion_kpa |-> 0, allowable_bearing_pressure_kpa |-> 100000 ],
      compacted_to_cbr_6_percent_soil |->
        [ unit_weight_kn_m3 |-> 19000, friction_angle_deg |-> 32000,
          cohesion_kpa |-> 5000, allowable_bearing_pressure_kpa |-> 200000 ],
      boulder_compacted_to_cbr_40_percent |->
        [ unit_weight_kn_m3 |-> 21000, friction_angle_deg |-> 38000,
          cohesion_kpa |-> 10000, allowable_bearing_pressure_kpa |-> 300000 ] ]

\* initial value of the module-level material table
material_properties_initial ==
    [ concrete |->
        [ unit_weight_kn_m3 |-> 24000, f_c_prime_mpa |-> 28000, f_y_mpa |-> 420000 ],
      stone_masonry |-> [ unit_weight_kn_m3 |-> 22000 ],
      cement_treated_base |-> [ unit_weight_kn_m3 |-> 20000 ] ]

\* d[k] = v on a dictionary: the key is added or its value replaced
SetKey(d, k, v) == [ x \in DOMAIN d \cup {k} |-> IF x = k THEN v ELSE d[x] ]

\* dict.update
Update(d, u) == [ x \in DOMAIN d \cup DOMAIN u |-> IF x \in DOMAIN u THEN u[x] ELSE d[x] ]

(***************************************************************************)
(* unit_conversion.py                                                      *)
(***************************************************************************)
m_to_ft == 3280840
kn_m3_to_pcf == 6366000
kpa_to_psf == 20885000
mpa_to_psi == 145038000
kn_to_lb == 224809000

\* the imperial twin fields convert_units adds to params
ImperialParams(params) ==
    [ wall_height_ft |-> MulK(params["wall_height_m"], m_to_ft),
      foundation_depth_ft |-> MulK(params["foundation_depth_m"], m_to_ft),
      toe_length_ft |-> MulK(params["toe_length_m"], m_to_ft),
      heel_length_ft |-> MulK(params["heel_length_m"], m_to_ft),
      wall_top_width_ft |-> MulK(params["wall_top_width_m"], m_to_ft),
      wall_base_width_ft |-> MulK(params["wall_base_width_m"], m_to_ft),
      groundwater_level_ft_below_base |-> MulK(params["groundwater_level_m_below_base"], m_to_ft),
      shear_key_depth_ft |-> MulK(params["shear_key_depth_m"], m_to_ft),
      shear_key_width_ft |-> MulK(params["shear_key_width_m"], m_to_ft),
      active_side_ground_elevation_ft |-> MulK(params["active_side_ground_elevation_m"], m_to_ft),
      passive_side_ground_elevation_ft |-> MulK(params["passive_side_ground_elevation_m"], m_to_ft),
      point_load_lb |-> MulK(params["point_load_kn"], kn_to_lb),
      point_load_distance_from_wall_ft |-> MulK(params["point_load_distance_from_wall_m"], m_to_ft),
      surcharge_load_psf |-> MulK(params["surcharge_load_kpa"], kpa_to_psf),
      foundation_lower_than_passive_side_ft |-> MulK(params["foundation_lower_than_passive_side_m"], m_to_ft) ]

\* variant of ConvertSoil that converts the allowable bearing pressure of a
\* not yet converted entry in place
ConvertSoil_in_place(soil) ==
    IF "allowable_bearing_pressure_psf" \in DOMAIN soil THEN soil
    ELSE SetKey(SetKey(SetKey(soil, "unit_weight_pcf",
                              MulK(soil["unit_weight_kn_m3"], kn_m3_to_pcf)),
                       "allowable_bearing_pressure_psf",
                       MulK(soil["allowable_bearing_pressure_kpa"], kpa_to_psf)),
                "allowable_bearing_pressure_kpa",
                MulK(soil["allowable_bearing_pressure_kpa"], kpa_to_psf))

ConvertSoil(soil) ==
    SetKey(SetKey(soil, "unit_weight_pcf", MulK(soil["unit_weight_kn_m3"], kn_m3_to_pcf)),
           "allowable_bearing_pressure_psf",
           MulK(soil["allowable_bearing_pressure_kpa"], kpa_to_psf))

\* one material entry after the conversion loop
ConvertMaterial(mat) ==
    LET m1 == IF "unit_weight_kn_m3" \in DOMAIN mat
              THEN SetKey(mat, "unit_weight_pcf", MulK(mat["unit_weight_kn_m3"], kn_m3_to_pcf))
              ELSE mat
        m2 == IF "f_c_prime_mpa" \in DOMAIN m1
              THEN SetKey(m1, "f_c_prime_psi", MulK(m1["f_c_prime_mpa"], mpa_to_psi))
              ELSE m1
    IN  IF "f_y_mpa" \in DOMAIN m2
        THEN SetKey(m2, "f_y_psi", MulK(m2["f_y_mpa"], mpa_to_psi))
        ELSE m2

\* convert_units(params, soils, materials): the three dictionaries afterwards.
\* The entries of soils and materials are the caller's objects (a shallow
\* copy shares them), so the new tables are also the module-level tables.
convert_units(params, soils, materials) ==
    IF params["units"] = "imperial"
    THEN [ params |-> Update(params, ImperialParams(params)),
           soils |-> [ s \in DOMAIN soils |-> ConvertSoil(soils[s]) ],
           materials |-> [ m \in DOMAIN materials |-> ConvertMaterial(materials[m]) ] ]
    ELSE [ params |-> params, soils |-> soils, materials |-> materials ]

(***************************************************************************)
(* geometry.py                                                             *)
(***************************************************************************)
\* the suffix of the length fields read for the request's unit system
LenKey(params, name) ==
    IF params["units"] = "metric" THEN params[name \o "_m"] ELSE params[name \o "_ft"]

\* variant of total_height that leaves the foundation depth out
total_height_stem_only(h_wall_stem, foundation_depth) == h_wall_stem

\* line 39
total_height(h_wall_stem, foundation_depth) == h_wall_stem + foundation_depth

\* variant of base_width that leaves the stem base out
base_width_without_stem(toe_length, t_base, heel_length) == toe_length + heel_length

\* lines 43 and 46: the same sum in both branches
base_width(toe_length, t_base, heel_length) == toe_length + t_base + heel_length

\* variant of stem_offset that measures the heel-side stem from the heel edge
stem_offset_from_heel_edge(face_wall_position, toe_length, t_base, heel_length, B_base) ==
    IF face_wall_position = "toe_side" THEN toe_length
    ELSE B_base - heel_length

\* lines 42-47
stem_offset(face_wall_position, toe_length, t_base, heel_length, B_base) ==
    IF face_wall_position = "toe_side" THEN toe_length
    ELSE B_base - heel_length - t_base

calculate_geometry(params) ==
    LET metric == params["units"] = "metric"
        wall_height == LenKey(params, "wall_height")
        foundation_depth == LenKey(params, "foundation_depth")
        toe_length == LenKey(params, "toe_length")
        heel_length == LenKey(params, "heel_length")
        t_top == LenKey(params, "wall_top_width")
        t_base == LenKey(params, "wall_base_width")
        active_side_ground_elevation == LenKey(params, "active_side_ground_elevation")
        B_base == base_width(toe_length, t_base, heel_length)
    IN  [ H_total |-> total_height(wall_height, foundation_depth),
          h_wall_stem |-> wall_height,
          D_f |-> foundation_depth,
          B_toe |-> toe_length,
          B_heel |-> heel_length,
          t_top |-> t_top,
          t_base |-> t_base,
          groundwater_level_below_base |->
              IF metric THEN params["groundwater_level_m_below_base"]
              ELSE params["groundwater_level_ft_below_base"],
          shear_key_depth |-> LenKey(params, "shear_key_depth"),
          shear_key_width |-> LenKey(params, "shear_key_width"),
          B_base |-> B_base,
          wall_base_offset_from_toe |->
              stem_offset(params["face_wall_position"], toe_length, t_base, heel_length,
                          B_base),
          active_side_ground_elevation |-> active_side_ground_elevation,
          passive_side_ground_elevation |-> LenKey(params, "passive_side_ground_elevation"),
          active_side_slope_height |->
              IF wall_height < active_side_ground_elevation
              THEN active_side_ground_elevation - wall_height ELSE 0,
          point_load |-> IF metric THEN params["point_load_kn"] ELSE params["point_load_lb"],
          point_load_distance_from_wall |-> LenKey(params, "point_load_distance_from_wall"),
          surcharge_load |->
              IF metric THEN params["surcharge_load_kpa"] ELSE params["surcharge_load_psf"],
          foundation_lower_than_passive_side |->
              LenKey(params, "foundation_lower_than_passive_side") ]

(***************************************************************************)
(* earth_pressure.py                                                       *)
(* A function that can raise returns [raised |-> exception name, v |-> _]. *)
(***************************************************************************)
Ok(v) == [ raised |-> "none", v |-> v ]
Raise(e) == [ raised |-> e, v |-> 0 ]

\* variant of ka_sloped that clamps a negative radicand to 0
ka_sloped_clamped(cb, cp) ==
    LET radicand == MulK(cb, cb) - MulK(cp, cp)
    IN  Let(Sqrt(IF radicand < 0 THEN 0 ELSE radicand), LAMBDA root :
            IF cb + root = 0 THEN Raise("ZeroDivisionError")
            ELSE Ok(MulK(cb, DivK(cb - root, cb + root))))

\* the sloped-backfill branch, given cos(beta) and cos(phi)
ka_sloped(cb, cp) ==
    LET radicand == MulK(cb, cb) - MulK(cp, cp)
    IN  IF radicand < 0 THEN Raise("ValueError")
        ELSE Let(Sqrt(radicand), LAMBDA root :
                 IF cb + root = 0 THEN Raise("ZeroDivisionError")
                 ELSE Ok(MulK(cb, DivK(cb - root, cb + root))))

calculate_ka(phi_deg, beta_deg) ==
    IF beta_deg = 0
    THEN Let(Tan(QuarterPi - Radians(phi_deg) \div 2), LAMBDA t : Ok(MulK(t, t)))
    ELSE Let(<<Cos(Radians(beta_deg)), Cos(Radians(phi_deg))>>,
             LAMBDA c : ka_sloped(c[1], c[2]))

\* variant of calculate_kp with the sign of the half angle slipped
calculate_kp_minus_half_angle(phi_deg) ==
    Let(Tan(QuarterPi - Radians(phi_deg) \div 2), LAMBDA t : MulK(t, t))

calculate_kp(phi_deg) ==
    Let(Tan(QuarterPi + Radians(phi_deg) \div 2), LAMBDA t : MulK(t, t))

\* the fixed backfill slope angle atan(1/2) in degrees
SlopeBetaDeg == 26565

\* unit weight of water, kN/m^3
GammaWater == 9810

\* variant of pressure_for that takes the submerged branch at every depth once
\* a groundwater depth is given
pressure_for_table_at_any_depth(gamma, height, groundwater_depth, surcharge_load, K) ==
    LET pressure == MulK(Mul(gamma, height), K) + MulK(surcharge_load, K)
        gwd == groundwater_depth[1]
        gamma_submerged == gamma - GammaWater
        pressure_above_gw == MulK(Mul(gamma, gwd), K)
        pressure_below_gw == MulK(Mul(gamma_submerged, height - gwd), K)
                             + Mul(GammaWater, height - gwd)
    IN  IF groundwater_depth # <<>>
        THEN pressure_above_gw + pressure_below_gw
        ELSE pressure

\* lines 38-47: the pressure for the coefficient K
pressure_for(gamma, height, groundwater_depth, surcharge_load, K) ==
    LET pressure == MulK(Mul(gamma, height), K) + MulK(surcharge_load, K)
        gwd == groundwater_depth[1]
        gamma_submerged == gamma - GammaWater
        pressure_above_gw == MulK(Mul(gamma, gwd), K)
        pressure_below_gw == MulK(Mul(gamma_submerged, height - gwd), K)
                             + Mul(GammaWater, height - gwd)
    IN  IF groundwater_depth # <<>> /\ height > gwd
        THEN pressure_above_gw + pressure_below_gw
        ELSE pressure

\* groundwater_depth is <<>> for None and <<d>> for a depth d
calculate_earth_pressure(soil_props, height, groundwater_depth, is_active, surcharge_load, active_side_slope_height) ==
    LET gamma == soil_props["unit_weight_kn_m3"]
        phi == soil_props["friction_angle_deg"]
        beta_deg == IF is_active /\ active_side_slope_height > 0 THEN SlopeBetaDeg ELSE 0
    IN  Let(<<IF is_active THEN calculate_ka(phi, beta_deg) ELSE Ok(calculate_kp(phi)),
              height, groundwater_depth, surcharge_load>>,
            LAMBDA a :
                IF a[1].raised # "none" THEN a[1]
                ELSE Ok(pressure_for(gamma, a[2], a[3], a[4], a[1].v)))

(***************************************************************************)
(* stability_analysis.py                                                   *)
(***************************************************************************)
\* float('inf'): above every finite value of the model
Infinity == 2147483647

\* a / b on floats where a may be inf and b is finite and positive, or
\* a finite and b = inf
FDiv(a, b) == IF b = Infinity THEN 0 ELSE IF a = Infinity THEN Infinity ELSE Div(a, b)

UnitWeight(params, props) ==
    IF params["units"] = "metric" THEN props["unit_weight_kn_m3"] ELSE props["unit_weight_pcf"]

\* variant of shear_key_resistance_of that ignores the position of the key
shear_key_resistance_any_position(params, geometry, passive_soil, groundwater_depth_from_surface) ==
    LET D_f == geometry["D_f"]
        shear_key_depth == geometry["shear_key_depth"]
        Pp_at_top_of_key ==
            calculate_earth_pressure(passive_soil, D_f, <<groundwater_depth_from_surface>>,
                                     FALSE, 0, 0).v
        Pp_at_bottom_of_key ==
            calculate_earth_pressure(passive_soil, D_f + shear_key_depth,
                                     <<groundwater_depth_from_surface>>, FALSE, 0, 0).v
    IN  IF params["shear_key_used"] /\ params["slab_material"] = "concrete"
        THEN Mul((Pp_at_top_of_key + Pp_at_bottom_of_key) \div 2, shear_key_depth)
        ELSE 0

\* variant of shear_key_resistance_of that lets every slab but "none" carry a key
shear_key_resistance_any_slab(params, geometry, passive_soil, groundwater_depth_from_surface) ==
    LET D_f == geometry["D_f"]
        shear_key_depth == geometry["shear_key_depth"]
        Pp_at_top_of_key ==
            calculate_earth_pressure(passive_soil, D_f, <<groundwater_depth_from_surface>>,
                                     FALSE, 0, 0).v
        Pp_at_bottom_of_key ==
            calculate_earth_pressure(passive_soil, D_f + shear_key_depth,
                                     <<groundwater_depth_from_surface>>, FALSE, 0, 0).v
    IN  IF params["shear_key_used"] /\ params["slab_material"] # "none"
        THEN IF params["shear_key_position"] = "heel" THEN 0
             ELSE Mul((Pp_at_top_of_key + Pp_at_bottom_of_key) \div 2, shear_key_depth)
        ELSE 0

\* variant of shear_key_resistance_of that takes the difference of the two
\* passive pressures
shear_key_resistance_difference(params, geometry, passive_soil, groundwater_depth_from_surface) ==
    LET D_f == geometry["D_f"]
        shear_key_depth == geometry["shear_key_depth"]
        Pp_at_top_of_key ==
            calculate_earth_pressure(passive_soil, D_f, <<groundwater_depth_from_surface>>,
                                     FALSE, 0, 0).v
        Pp_at_bottom_of_key ==
            calculate_earth_pressure(passive_soil, D_f + shear_key_depth,
                                     <<groundwater_depth_from_surface>>, FALSE, 0, 0).v
    IN  IF params["shear_key_used"] /\ params["slab_material"] = "concrete"
        THEN IF params["shear_key_position"] = "heel" THEN 0
             ELSE Mul((Pp_at_top_of_key - Pp_at_bottom_of_key) \div 2, shear_key_depth)
        ELSE 0

\* shear key resistance, lines 73-90
shear_key_resistance_of(params, geometry, passive_soil, groundwater_depth_from_surface) ==
    LET D_f == geometry["D_f"]
        shear_key_depth == geometry["shear_key_depth"]
        Pp_at_top_of_key ==
            calculate_earth_pressure(passive_soil, D_f, <<groundwater_depth_from_surface>>,
                                     FALSE, 0, 0).v
        Pp_at_bottom_of_key ==
            calculate_earth_pressure(passive_soil, D_f + shear_key_depth,
                                     <<groundwater_depth_from_surface>>, FALSE, 0, 0).v
    IN  IF params["shear_key_used"] /\ params["slab_material"] = "concrete"
        THEN IF params["shear_key_position"] = "heel" THEN 0
             ELSE Mul((Pp_at_top_of_key + Pp_at_bottom_of_key) \div 2, shear_key_depth)
        ELSE 0

\* variant of bearing_pressure that tests the signed eccentricity
bearing_pressure_signed(total_vertical_force, B_base, x_bar, e) ==
    IF e * 6 > B_base
    THEN << IF x_bar > 0 THEN Div(2 * total_vertical_force, 3 * x_bar) ELSE Infinity, 0 >>
    ELSE << MulK(Div(total_vertical_force, B_base), KScale + DivK(6 * e, B_base)),
            MulK(Div(total_vertical_force, B_base), KScale - DivK(6 * e, B_base)) >>

\* bearing pressures, lines 112-125: <<q_max, q_min>>
bearing_pressure(total_vertical_force, B_base, x_bar, e) ==
    IF Abs(e) * 6 > B_base
    THEN << IF x_bar > 0 THEN Div(2 * total_vertical_force, 3 * x_bar) ELSE Infinity, 0 >>
    ELSE << MulK(Div(total_vertical_force, B_base), KScale + DivK(6 * e, B_base)),
            MulK(Div(total_vertical_force, B_base), KScale - DivK(6 * e, B_base)) >>

\* variant of FS_overturning_of that reports 0 without an overturning moment
FS_overturning_zero_default(resisting_moment_about_toe, overturning_moment) ==
    IF overturning_moment > 0 THEN Div(resisting_moment_about_toe, overturning_moment)
    ELSE 0

\* factor of safety against overturning, line 98
FS_overturning_of(resisting_moment_about_toe, overturning_moment) ==
    IF overturning_moment > 0 THEN Div(resisting_moment_about_toe, overturning_moment)
    ELSE Infinity

\* variant of FS_sliding_of that reports 0 without a driving force
FS_sliding_zero_default(total_resisting_sliding_force, sliding_force) ==
    IF sliding_force > 0 THEN Div(total_resisting_sliding_force, sliding_force)
    ELSE 0

\* factor of safety against sliding, line 110
FS_sliding_of(total_resisting_sliding_force, sliding_force) ==
    IF sliding_force > 0 THEN Div(total_resisting_sliding_force, sliding_force)
    ELSE Infinity

\* variant of FS_bearing_of that reports +infinity for an infinite q_max
FS_bearing_infinite_on_sentinel(params, active_soil, q_max) ==
    IF q_max > 0 /\ q_max < Infinity
    THEN Div(IF params["units"] = "metric" THEN active_soil["allowable_bearing_pressure_kpa"]
             ELSE active_soil["allowable_bearing_pressure_psf"], q_max)
    ELSE Infinity

\* variant of FS_bearing_of that reads the metric allowable pressure always
FS_bearing_metric_only(params, active_soil, q_max) ==
    IF q_max > 0 THEN FDiv(active_soil["allowable_bearing_pressure_kpa"], q_max)
    ELSE Infinity

\* factor of safety against bearing capacity, line 128
FS_bearing_of(params, active_soil, q_max) ==
    IF q_max > 0
    THEN FDiv(IF params["units"] = "metric" THEN active_soil["allowable_bearing_pressure_kpa"]
              ELSE active_soil["allowable_bearing_pressure_psf"], q_max)
    ELSE Infinity

\* lines 24-55: weights of the components and their moment about the toe
weights(params, geometry, active_soil, passive_soil, wall_material_props, slab_material_props) ==
    LET h_wall_stem == geometry["h_wall_stem"]
        B_toe == geometry["B_toe"]
        B_heel == geometry["B_heel"]
        t_top == geometry["t_top"]
        t_base == geometry["t_base"]
        B_base == geometry["B_base"]
        area_stem == Mul((t_top + t_base) \div 2, h_wall_stem)
        weight_stem == Mul(area_stem, UnitWeight(params, wall_material_props))
        x_stem == geometry["wall_base_offset_from_toe"]
                  + Mul(t_base \div 3, Div(2 * t_top + t_base, t_top + t_base))
        area_base_slab == Mul(B_base, geometry["D_f"])
        weight_base_slab == Mul(area_base_slab, UnitWeight(params, slab_material_props))
        x_base_slab == B_base \div 2
        area_soil_heel == Mul(B_heel, h_wall_stem + geometry["active_side_ground_elevation"])
        weight_soil_heel == Mul(area_soil_heel, UnitWeight(params, active_soil))
        x_soil_heel == B_base - B_heel \div 2
        area_soil_toe == Mul(B_toe, geometry["passive_side_ground_elevation"])
        weight_soil_toe == Mul(area_soil_toe, UnitWeight(params, passive_soil))
        x_soil_toe == B_toe \div 2
    IN  IF t_top + t_base = 0 THEN [ raised |-> "ZeroDivisionError" ]
        ELSE Let(<<weight_stem, weight_base_slab, weight_soil_heel, weight_soil_toe>>,
                 LAMBDA w :
                    [ raised |-> "none",
                      weight_stem |-> w[1],
                      weight_base_slab |-> w[2],
                      weight_soil_heel |-> w[3],
                      weight_soil_toe |-> w[4],
                      total_vertical_force |-> w[1] + w[2] + w[3] + w[4],
                      resisting_moment_about_toe |->
                          Mul(w[1], x_stem) + Mul(w[2], x_base_slab)
                          + Mul(w[3], x_soil_heel) + Mul(w[4], x_soil_toe) ])

\* variant of earth_forces that adds the point load to the active force
earth_forces_with_point_load(params, geometry, active_soil, passive_soil) ==
    LET H_total == geometry["H_total"]
        D_f == geometry["D_f"]
        groundwater_depth_from_surface == D_f + geometry["groundwater_level_below_base"]
        passive_depth_for_pressure == D_f + geometry["foundation_lower_than_passive_side"]
    IN  Let(<<calculate_earth_pressure(active_soil, H_total,
                                       <<groundwater_depth_from_surface>>, TRUE,
                                       geometry["surcharge_load"],
                                       geometry["active_side_slope_height"]),
              calculate_earth_pressure(passive_soil, passive_depth_for_pressure,
                                       <<groundwater_depth_from_surface>>, FALSE, 0, 0).v>>,
            LAMBDA P :
                IF P[1].raised # "none" THEN [ raised |-> P[1].raised ]
                ELSE [ raised |-> "none",
                       Pa_at_base |-> P[1].v,
                       Pa_force |-> Mul(P[1].v \div 2, H_total) + geometry["point_load"],
                       y_Pa |-> H_total \div 3,
                       Pp_at_base |-> P[2],
                       Pp_force |-> Mul(P[2] \div 2, passive_depth_for_pressure),
                       y_Pp |-> passive_depth_for_pressure \div 3,
                       shear_key_resistance |->
                           shear_key_resistance_of(params, geometry, passive_soil,
                                                   groundwater_depth_from_surface) ])

\* lines 57-90: earth pressures, their forces and the shear key resistance
earth_forces(params, geometry, active_soil, passive_soil) ==
    LET H_total == geometry["H_total"]
        D_f == geometry["D_f"]
        groundwater_depth_from_surface == D_f + geometry["groundwater_level_below_base"]
        passive_depth_for_pressure == D_f + geometry["foundation_lower_than_passive_side"]
    IN  Let(<<calculate_earth_pressure(active_soil, H_total,
                                       <<groundwater_depth_from_surface>>, TRUE,
                                       geometry["surcharge_load"],
                                       geometry["active_side_slope_height"]),
              calculate_earth_pressure(passive_soil, passive_depth_for_pressure,
                                       <<groundwater_depth_from_surface>>, FALSE, 0, 0).v>>,
            LAMBDA P :
                IF P[1].raised # "none" THEN [ raised |-> P[1].raised ]
                ELSE [ raised |-> "none",
                       Pa_at_base |-> P[1].v,
                       Pa_force |-> Mul(P[1].v \div 2, H_total),
                       y_Pa |-> H_total \div 3,
                       Pp_at_base |-> P[2],
                       Pp_force |-> Mul(P[2] \div 2, passive_depth_for_pressure),
                       y_Pp |-> passive_depth_for_pressure \div 3,
                       shear_key_resistance |->
                           shear_key_resistance_of(params, geometry, passive_soil,
                                                   groundwater_depth_from_surface) ])

\* lines 92-153: moments, factors of safety, bearing pressure and the result,
\* for the weights W and the earth forces E
factors(params, geometry, active_soil, W, E) ==
    LET B_base == geometry["B_base"]
        total_vertical_force == W.total_vertical_force
        resisting_moment_about_toe == W.resisting_moment_about_toe
        friction_angle_base == (2 * active_soil["friction_angle_deg"]) \div 3
    IN  Let(<<Mul(E.Pa_force, E.y_Pa),
              MulK(total_vertical_force, Tan(Radians(friction_angle_base)))>>,
        LAMBDA m :
        LET overturning_moment == m[1]
            friction_resisting_force == m[2]
            sliding_force == E.Pa_force - E.Pp_force
            total_resisting_sliding_force ==
                friction_resisting_force + E.Pp_force + E.shear_key_resistance
        IN  IF total_vertical_force = 0 THEN [ raised |-> "ZeroDivisionError" ]
            ELSE Let(Div(resisting_moment_about_toe - overturning_moment, total_vertical_force),
                 LAMBDA x_bar :
                 LET e == x_bar - B_base \div 2
                 IN  IF Abs(e) * 6 <= B_base /\ B_base = 0
                     THEN [ raised |-> "ZeroDivisionError" ]
                     ELSE Let(bearing_pressure(total_vertical_force, B_base, x_bar, e),
                          LAMBDA q :
                          [ raised |-> "none",
                            total_vertical_force |-> total_vertical_force,
                            resisting_moment_about_toe |-> resisting_moment_about_toe,
                            Pa_at_base |-> E.Pa_at_base,
                            Pa_force |-> E.Pa_force,
                            y_Pa |-> E.y_Pa,
                            Pp_at_base |-> E.Pp_at_base,
                            Pp_force |-> E.Pp_force,
                            y_Pp |-> E.y_Pp,
                            shear_key_resistance |-> E.shear_key_resistance,
                            overturning_moment |-> overturning_moment,
                            FS_overturning |->
                                FS_overturning_of(resisting_moment_about_toe,
                                                  overturning_moment),
                            sliding_force |-> sliding_force,
                            total_resisting_sliding_force |-> total_resisting_sliding_force,
                            FS_sliding |->
                                FS_sliding_of(total_resisting_sliding_force, sliding_force),
                            x_bar |-> x_bar,
                            e |-> e,
                            q_max |-> q[1],
                            q_min |-> q[2],
                            FS_bearing |-> FS_bearing_of(params, active_soil, q[1]),
                            weight_stem |-> W.weight_stem,
                            weight_base_slab |-> W.weight_base_slab,
                            weight_soil_heel |-> W.weight_soil_heel,
                            weight_soil_toe |-> W.weight_soil_toe ])))

perform_stability_analysis(params, geometry, active_soil, passive_soil, wall_material_props, slab_material_props) ==
    Let(weights(params, geometry, active_soil, passive_soil, wall_material_props,
                slab_material_props),
        LAMBDA W :
            IF W.raised # "none" THEN W
            ELSE Let(earth_forces(params, geometry, active_soil, passive_soil),
                     LAMBDA E : IF E.raised # "none" THEN E
                                ELSE factors(params, geometry, active_soil, W, E)))

(***************************************************************************)
(* rebar_calculation.py                                                    *)
(***************************************************************************)
\* a / b as a coefficient for a >= 0, b > 0; a quotient of 2000 or more is
\* carried as Infinity
SatDivK(a, b) ==
    Let(<<a, b>>, LAMBDA x :
        IF x[1] = Infinity \/ x[1] \div x[2] >= 2000 THEN Infinity ELSE DivK(x[1], x[2]))

\* Rn = Mu * 1e6 / (phi * b * d^2) with phi = 0.9, as a coefficient (MPa),
\* lines 13-19
Rn_of(Mu_knm, b_mm, d_mm) ==
    SatDivK(SatDivK(SatDivK(Mu_knm, d_mm), d_mm), (9 * b_mm) \div 10)

\* variant of sqrt_term_of that clamps to 1
sqrt_term_clamped_to_one(Rn, fc_mpa) ==
    LET ratio == IF Rn = Infinity THEN Infinity ELSE Div(Rn, (425 * fc_mpa) \div 1000)
    IN  IF KScale - ratio < 0 THEN KScale ELSE KScale - ratio

\* lines 23-25: 1 - 2*Rn / (0.85*fc), clamped at 0
sqrt_term_of(Rn, fc_mpa) ==
    LET ratio == IF Rn = Infinity THEN Infinity ELSE Div(Rn, (425 * fc_mpa) \div 1000)
    IN  IF KScale - ratio < 0 THEN 0 ELSE KScale - ratio

\* lines 4-32: required steel area of a rectangular section; the product
\* rho * b * d = (0.85*fc/fy) * (1 - sqrt(sqrt_term)) * b * d is taken from its
\* large factors down to keep the digits of the small ones
calculate_rebar_area(Mu_knm, b_mm, d_mm, fc_mpa, fy_mpa) ==
    Let(sqrt_term_of(Rn_of(Mu_knm, b_mm, d_mm), fc_mpa), LAMBDA sqrt_term :
        MulK(MulK(Mul(b_mm, d_mm), DivK((85 * fc_mpa) \div 100, fy_mpa)),
             KScale - Sqrt(sqrt_term)))

\* "{As:.2f}": the area in hundredths of its unit
Format2f(v) == (v + 5) \div 10

\* variant of rebar_line that reports a zero area without an effective depth
rebar_line_zero_area(Mu, b, d, fc_val, fy_val, area_unit) ==
    [ kind |-> "As",
      value |-> IF d > 0 THEN Format2f(calculate_rebar_area(Mu, b, d, fc_val, fy_val)) ELSE 0,
      unit |-> area_unit ]

\* lines 63-67 and 77-81: one line of the reinforcement report
rebar_line(Mu, b, d, fc_val, fy_val, area_unit) ==
    IF d > 0
    THEN [ kind |-> "As", value |-> Format2f(calculate_rebar_area(Mu, b, d, fc_val, fy_val)),
           unit |-> area_unit ]
    ELSE [ kind |-> "Check dimensions" ]

\* line 53: the active pressure at the base of the stem
Pa_at_stem_base_of(geometry, active_soil, groundwater_level_below_base) ==
    calculate_earth_pressure(active_soil, geometry["h_wall_stem"],
                             <<groundwater_level_below_base>>, TRUE,
                             geometry["surcharge_load"], 0)

\* lines 34-82
calculate_rebar_info(params, geometry, wall_material_props, active_soil, groundwater_level_below_base) ==
    IF params["wall_material"] # "concrete" THEN [ kind |-> "N/A (Stone Masonry)" ]
    ELSE
    LET metric == params["units"] = "metric"
        fc_val == IF metric THEN wall_material_props["f_c_prime_mpa"]
                  ELSE wall_material_props["f_c_prime_psi"]
        fy_val == IF metric THEN wall_material_props["f_y_mpa"]
                  ELSE wall_material_props["f_y_psi"]
        d_unit_factor == IF metric THEN 1000 ELSE 12
        area_unit == IF metric THEN "mm^2/m" ELSE "in^2/ft"
        h == geometry["h_wall_stem"]
        cover == IF metric THEN 75 ELSE 250
        b_calc_unit == IF metric THEN 1000 * Scale ELSE 12 * Scale
        Mu_base_slab_nominal == 10 * Scale
    IN  Let(Pa_at_stem_base_of(geometry, active_soil, groundwater_level_below_base).v,
            LAMBDA Pa_at_stem_base :
        Let(Mul(Mul((6 * Pa_at_stem_base) \div 10, h), h \div 3), LAMBDA Mu_stem :
            [ kind |-> "concrete",
              stem |-> rebar_line(Mu_stem, b_calc_unit,
                                  (geometry["t_base"] - cover) * d_unit_factor,
                                  fc_val, fy_val, area_unit),
              base_slab |-> rebar_line(Mu_base_slab_nominal, b_calc_unit,
                                       (geometry["D_f"] - cover) * d_unit_factor,
                                       fc_val, fy_val, area_unit) ]))

(***************************************************************************)
(* Callers' overrides: a dictionary of at most MaxOverrides keys           *)
(***************************************************************************)
MaxOverrides == 2

Options ==
    << <<"units", "imperial">>,
       <<"wall_height_m", 0>>,
       <<"wall_height_m", 6000>>,
       <<"foundation_depth_m", 0>>,
       <<"toe_length_m", 0>>,
       <<"heel_length_m", 0>>,
       <<"heel_length_m", 1000>>,
       <<"wall_top_width_m", 0>>,
       <<"wall_base_width_m", 0>>,
       <<"wall_base_width_m", 75>>,
       <<"wall_material", "stone_masonry">>,
       <<"wall_material", "timber">>,
       <<"slab_material", "cement_treated_base">>,
       <<"slab_material", "none">>,
       <<"slab_material", "gravel">>,
       <<"face_wall_position", "heel_side">>,
       <<"active_soil_type", "loose_backfill_soil">>,
       <<"active_soil_type", "compacted_to_cbr_6_percent_soil">>,
       <<"active_soil_type", "boulder_compacted_to_cbr_40_percent">>,
       <<"active_soil_type", "peat">>,
       <<"passive_soil_type", "loose_backfill_soil">>,
       <<"passive_soil_type", "compacted_to_cbr_6_percent_soil">>,
       <<"passive_soil_type", "boulder_compacted_to_cbr_40_percent">>,
       <<"passive_soil_type", "peat">>,
       <<"groundwater_level_m_below_base", 0>>,
       <<"groundwater_level_m_below_base", 100000>>,
       <<"shear_key_used", TRUE>>,
       <<"shear_key_position", "toe">>,
       <<"shear_key_position", "heel">>,
       <<"shear_key_depth_m", 1000>>,
       <<"active_side_ground_elevation_m", 6000>>,
       <<"passive_side_ground_elevation_m", 500>>,
       <<"point_load_kn", 50000>>,
       <<"point_load_distance_from_wall_m", 2000>>,
       <<"surcharge_load_kpa", 10000>>,
       <<"surcharge_load_kpa", 100000>>,
       <<"foundation_lower_than_passive_side_m", 500>> >>

\* increasing index tuples that name no key twice
Picks(n) ==
    { s \in [1..n -> 1..Len(Options)] :
        \A i \in 1..(n - 1) : s[i] < s[i + 1] /\ Options[s[i]][1] # Options[s[i + 1]][1] }

OverrideOf(s) ==
    [ k \in { Options[s[i]][1] : i \in DOMAIN s } |->
        Options[CHOOSE j \in { s[i] : i \in DOMAIN s } : Options[j][1] = k][2] ]

UserParamSets == UNION { { OverrideOf(s) : s \in Picks(n) } : n \in 0..MaxOverrides }

(***************************************************************************)
(* retaining_wall_calculator.py: calculate_retaining_wall, step by step    *)
(***************************************************************************)
VARIABLES
    soil_properties,      \* module-level table of parameters.py
    material_properties,  \* module-level table of parameters.py
    pc,                   \* position in calculate_retaining_wall
    user_params,          \* the caller's override dictionary
    params,               \* the request's parameter object
    props,                \* active_soil, passive_soil, wall and slab material
    geometry,
    stability_results,
    rebar_info,           \* the reinforcement report
    first_pass,           \* history: the result of the first invocation
    calls                 \* history: invocations of perform_stability_analysis

vars == << soil_properties, material_properties, pc, user_params, params, props,
           geometry, stability_results, rebar_info, first_pass, calls >>

None == [ none |-> TRUE ]

units_display(units) ==
    IF units = "metric"
    THEN [ length |-> "m", force |-> "kN", pressure |-> "kPa", unit_weight |-> "kN/m^3",
           force_per_length |-> "kN/m", moment_per_length |-> "kN.m/m",
           area_per_length |-> "mm^2/m" ]
    ELSE [ length |-> "ft", force |-> "lb", pressure |-> "psf", unit_weight |-> "pcf",
           force_per_length |-> "lb/ft", moment_per_length |-> "lb.ft/ft",
           area_per_length |-> "in^2/ft" ]

\* variant of merge_params in which the defaults win over the overrides
merge_params_defaults_win(user) ==
    LET merged == Update(user, default_params)
    IN  SetKey(merged, "units_display", units_display(merged["units"]))

\* lines 73-97: defaults, overrides, display units
merge_params(user) ==
    LET merged == Update(default_params, user)
    IN  SetKey(merged, "units_display", units_display(merged["units"]))

\* variant of lookup_props that falls back on the default soil and material
lookup_props_with_defaults(p, soils, materials) ==
    LET soil(n) == IF n \in DOMAIN soils THEN soils[n] ELSE soils["ordinary_soil"]
        material(n) == IF n \in DOMAIN materials THEN materials[n] ELSE materials["concrete"]
    IN  [ raised |-> "none",
          active_soil |-> soil(p["active_soil_type"]),
          passive_soil |-> soil(p["passive_soil_type"]),
          wall_material_props |-> material(p["wall_material"]),
          slab_material_props |->
              IF p["slab_material"] = "none"
              THEN [ unit_weight_kn_m3 |-> 0, unit_weight_pcf |-> 0 ]
              ELSE material(p["slab_material"]) ]

\* lines 102-112: the four property lookups; a name that is no key of its
\* table raises KeyError
lookup_props(p, soils, materials) ==
    IF \/ p["active_soil_type"] \notin DOMAIN soils
       \/ p["passive_soil_type"] \notin DOMAIN soils
       \/ p["wall_material"] \notin DOMAIN materials
       \/ p["slab_material"] # "none" /\ p["slab_material"] \notin DOMAIN materials
    THEN [ raised |-> "KeyError" ]
    ELSE [ raised |-> "none",
           active_soil |-> soils[p["active_soil_type"]],
           passive_soil |-> soils[p["passive_soil_type"]],
           wall_material_props |-> materials[p["wall_material"]],
           slab_material_props |->
               IF p["slab_material"] = "none"
               THEN [ unit_weight_kn_m3 |-> 0, unit_weight_pcf |-> 0 ]
               ELSE materials[p["slab_material"]] ]

analyse(p, g, pr) ==
    perform_stability_analysis(p, g, pr["active_soil"], pr["passive_soil"],
                               pr["wall_material_props"], pr["slab_material_props"])

\* variant of shear_key_automation that retries whatever the slab material
shear_key_automation_any_slab(results, p) == results["FS_sliding"] < 1500

\* line 121: the condition of the shear key automation
shear_key_automation(results, p) ==
    results["FS_sliding"] < 1500 /\ p["slab_material"] = "concrete"

\* lines 72-124 as a function of the overrides and the tables: the stability
\* results the request ends with
calculate_retaining_wall(user, soils, materials) ==
    Let(convert_units(merge_params(user), soils, materials), LAMBDA c :
    Let(lookup_props(c.params, c.soils, c.materials), LAMBDA pr :
    IF pr.raised # "none" THEN pr
    ELSE
    Let(calculate_geometry(c.params), LAMBDA g :
    Let(analyse(c.params, g, pr), LAMBDA r :
        IF r.raised # "none" THEN r
        ELSE IF shear_key_automation(r, c.params)
             THEN analyse(SetKey(c.params, "shear_key_used", TRUE), g, pr)
             ELSE r))))

Init ==
    /\ soil_properties = soil_properties_initial
    /\ material_properties = material_properties_initial
    /\ pc = "idle"
    /\ user_params = None
    /\ params = None
    /\ props = None
    /\ geometry = None
    /\ stability_results = None
    /\ rebar_info = None
    /\ first_pass = None
    /\ calls = 0

\* a caller invokes calculate_retaining_wall(user), user drawn from users:
\* lines 73-97
StartWith(users) ==
    /\ pc = "idle"
    /\ \E user \in users :
        /\ user_params' = user
        /\ params' = merge_params(user)
    /\ pc' = "convert"
    /\ UNCHANGED << rebar_info, soil_properties, material_properties, props, geometry,
                    stability_results, first_pass, calls >>

Start == StartWith(UserParamSets)

\* lines 100-112: convert_units on shallow copies of the tables, then the
\* lookups; a KeyError ends the request
Convert ==
    /\ pc = "convert"
    /\ LET c == convert_units(params, soil_properties, material_properties)
           pr == lookup_props(c.params, c.soils, c.materials)
       IN  /\ params' = c.params
           /\ soil_properties' = c.soils
           /\ material_properties' = c.materials
           /\ IF pr.raised = "none"
              THEN /\ props' = pr
                   /\ pc' = "geometry"
                   /\ UNCHANGED stability_results
              ELSE /\ props' = props
                   /\ pc' = "raised"
                   /\ stability_results' = pr
    /\ UNCHANGED << rebar_info, user_params, geometry, first_pass, calls >>

\* line 115
Geometry ==
    /\ pc = "geometry"
    /\ geometry' = calculate_geometry(params)
    /\ pc' = "analysis"
    /\ UNCHANGED << rebar_info, soil_properties, material_properties, user_params, params, props,
                    stability_results, first_pass, calls >>

\* line 118: the first invocation; an exception ends the request
FirstPass ==
    /\ pc = "analysis"
    /\ LET r == analyse(params, geometry, props)
       IN  /\ stability_results' = r
           /\ first_pass' = r
           /\ pc' = IF r.raised = "none" THEN "shear_key" ELSE "raised"
    /\ calls' = calls + 1
    /\ UNCHANGED << rebar_info, soil_properties, material_properties, user_params, params, props,
                    geometry >>

\* variant of Rerun whose second call writes into the result of the first
Rerun_into_first_result ==
    /\ pc = "shear_key"
    /\ shear_key_automation(stability_results, params)
    /\ LET p2 == SetKey(params, "shear_key_used", TRUE)
       IN  /\ params' = p2
           /\ stability_results' = analyse(p2, geometry, props)
           /\ first_pass' = analyse(p2, geometry, props)
    /\ calls' = calls + 1
    /\ pc' = "rebar"
    /\ UNCHANGED << rebar_info, soil_properties, material_properties, user_params, props, geometry >>

\* lines 121-124: the re-run with the shear key switched on
Rerun ==
    /\ pc = "shear_key"
    /\ shear_key_automation(stability_results, params)
    /\ LET p2 == SetKey(params, "shear_key_used", TRUE)
       IN  /\ params' = p2
           /\ stability_results' = analyse(p2, geometry, props)
    /\ calls' = calls + 1
    /\ pc' = "rebar"
    /\ UNCHANGED << rebar_info, soil_properties, material_properties, user_params, props, geometry,
                    first_pass >>

\* line 121, condition false
NoRerun ==
    /\ pc = "shear_key"
    /\ ~shear_key_automation(stability_results, params)
    /\ pc' = "rebar"
    /\ UNCHANGED << rebar_info, soil_properties, material_properties, user_params, params, props,
                    geometry, stability_results, first_pass, calls >>

\* lines 126-280: the reinforcement report; drawing and text reports read the
\* results; return
Return ==
    /\ pc = "rebar"
    /\ rebar_info' = calculate_rebar_info(params, geometry, props["wall_material_props"],
                                          props["active_soil"],
                                          geometry["groundwater_level_below_base"])
    /\ pc' = "done"
    /\ UNCHANGED << soil_properties, material_properties, user_params, params, props,
                    geometry, stability_results, first_pass, calls >>

\* the caller has the result (or the exception); the next request may start
NextRequest ==
    /\ pc \in {"done", "raised"}
    /\ pc' = "idle"
    /\ user_params' = None
    /\ params' = None
    /\ props' = None
    /\ geometry' = None
    /\ stability_results' = None
    /\ rebar_info' = None
    /\ first_pass' = None
    /\ calls' = 0
    /\ UNCHANGED << soil_properties, material_properties >>

Next ==
    \/ Start
    \/ Convert
    \/ Geometry
    \/ FirstPass
    \/ Rerun
    \/ NoRerun
    \/ Return
    \/ NextRequest

Spec == Init /\ [][Next]_vars

(***************************************************************************)
(* test_retaining_wall_calculator.py: the re-implementation of the request *)
(***************************************************************************)
\* lines 14-37: defaults and overrides, conversion, look-ups, geometry and the
\* one call of the analysis
stability_results_for_test(user, soils, materials) ==
    Let(convert_units(Update(default_params, user), soils, materials), LAMBDA c :
    Let(lookup_props(c.params, c.soils, c.materials), LAMBDA pr :
    IF pr.raised # "none" THEN pr
    ELSE analyse(c.params, calculate_geometry(c.params), pr)))

\* lines 13-43: line 43 calls generate_svg_drawing(params, geometry), whose
\* third parameter stability_results (svg_drawing.py, line 3) has no default
calculate_retaining_wall_for_test(user, soils, materials) ==
    Let(stability_results_for_test(user, soils, materials), LAMBDA r :
        IF r.raised # "none" THEN r ELSE [ raised |-> "TypeError" ])

(***************************************************************************)
(* The request among concurrent requests.  Every request owns its          *)
(* parameter, geometry and result objects; what requests share are the     *)
(* entries of the module-level tables, which the conversion loops of       *)
(* imperial requests assign to (unit_conversion.py, lines 30-41).  Every   *)
(* request runs the same loops in the same order and assigns the same      *)
(* values, so the tables always hold a prefix of ConversionWrites, the one *)
(* of the request that is furthest in its loops.                           *)
(***************************************************************************)
\* the overrides of the requests that run among others: the keys that select
\* the units and the table entries read, and the height that triggers the
\* second analysis
ConcurrentKeys == { "units", "wall_height_m", "active_soil_type", "wall_material" }

ConcurrentParamSets == { u \in UserParamSets : DOMAIN u \subseteq ConcurrentKeys }

\* the assignments of the conversion loops, in their order
ConversionWrites ==
    << <<"soil", "ordinary_soil", "unit_weight_pcf">>,
       <<"soil", "ordinary_soil", "allowable_bearing_pressure_psf">>,
       <<"soil", "loose_backfill_soil", "unit_weight_pcf">>,
       <<"soil", "loose_backfill_soil", "allowable_bearing_pressure_psf">>,
       <<"soil", "compacted_to_cbr_6_percent_soil", "unit_weight_pcf">>,
       <<"soil", "compacted_to_cbr_6_percent_soil", "allowable_bearing_pressure_psf">>,
       <<"soil", "boulder_compacted_to_cbr_40_percent", "unit_weight_pcf">>,
       <<"soil", "boulder_compacted_to_cbr_40_percent", "allowable_bearing_pressure_psf">>,
       <<"material", "concrete", "unit_weight_pcf">>,
       <<"material", "concrete", "f_c_prime_psi">>,
       <<"material", "concrete", "f_y_psi">>,
       <<"material", "stone_masonry", "unit_weight_pcf">>,
       <<"material", "cement_treated_base", "unit_weight_pcf">> >>

\* the table entry an assignment writes to, and whether it has been written
EntryOf(w) == IF w[1] = "soil" THEN soil_properties[w[2]] ELSE material_properties[w[2]]
Written(w) == w[3] \in DOMAIN EntryOf(w)

\* the entry after the assignment w of the loop body
AfterWrite(w) ==
    SetKey(EntryOf(w), w[3],
           IF w[1] = "soil" THEN ConvertSoil(EntryOf(w))[w[3]]
           ELSE ConvertMaterial(EntryOf(w))[w[3]])

\* another imperial request executes the next assignment of its conversion
\* loops
OtherRequestConverts ==
    /\ \E i \in DOMAIN ConversionWrites :
          LET w == ConversionWrites[i]
          IN  /\ ~Written(w)
              /\ \A j \in 1..(i - 1) : Written(ConversionWrites[j])
              /\ IF w[1] = "soil"
                 THEN /\ soil_properties' = SetKey(soil_properties, w[2], AfterWrite(w))
                      /\ UNCHANGED material_properties
                 ELSE /\ material_properties' = SetKey(material_properties, w[2], AfterWrite(w))
                      /\ UNCHANGED soil_properties
    /\ UNCHANGED << pc, user_params, params, props, geometry, stability_results,
                    rebar_info, first_pass, calls >>

StartAmong == StartWith(ConcurrentParamSets)

NextAmong ==
    \/ StartAmong
    \/ Convert
    \/ Geometry
    \/ FirstPass
    \/ Rerun
    \/ NoRerun
    \/ Return
    \/ NextRequest
    \/ OtherRequestConverts

SpecAmong == Init /\ [][NextAmong]_vars

(***************************************************************************)
(* Properties                                                              *)
(***************************************************************************)
\* the request holds the result of a completed invocation
HasResult == pc \in {"shear_key", "rebar", "done"}

\* the request is past the shear key automation
PastAutomation == pc \in {"rebar", "done"}

\* |a - b| <= tol
Near(a, b, tol) == Abs(a - b) <= tol

C2_NoResistanceAtHeelOrWithoutSlab ==
    HasResult /\ (params["shear_key_position"] = "heel" \/ params["slab_material"] = "none")
        => /\ stability_results["shear_key_resistance"] = 0
           /\ first_pass["shear_key_resistance"] = 0

\* C2 witness: a result computed with the shear key switched on, at the heel
C2_Witness ==
    /\ HasResult
    /\ params["shear_key_used"]
    /\ params["shear_key_position"] = "heel"
    /\ params["slab_material"] = "concrete"
    /\ stability_results["Pp_at_base"] > 0

\* the request holds its geometry
HasGeometry == pc \in {"analysis", "shear_key", "rebar", "done", "raised"} /\ geometry # None

\* C3: below the groundwater table the active pressure is strictly greater
\* than the pressure at the same depth without a table, all else equal.
C3_GroundwaterRaisesActivePressure ==
    HasResult =>
        LET gwd == geometry["D_f"] + geometry["groundwater_level_below_base"]
            dry == calculate_earth_pressure(props["active_soil"], geometry["H_total"], <<>>,
                                            TRUE, geometry["surcharge_load"],
                                            geometry["active_side_slope_height"])
        IN  geometry["H_total"] > gwd => stability_results["Pa_at_base"] > dry.v

\* C4: the default metric parameter set yields H_total = 6.0, B_base = 4.6 and
\* finite, strictly positive FS_overturning, FS_sliding, FS_bearing and q_max.
C4_DefaultScenario ==
    pc = "done" /\ DOMAIN user_params = {} =>
        /\ geometry["H_total"] = 6000
        /\ geometry["B_base"] = 4600
        /\ \A k \in {"FS_overturning", "FS_sliding", "FS_bearing", "q_max"} :
              stability_results[k] > 0 /\ stability_results[k] < Infinity

\* C4 witness: the request without overrides has returned
C4_Witness ==
    /\ pc = "done"
    /\ DOMAIN user_params = {}
    /\ params["units"] = "metric"
    /\ stability_results["raised"] = "none"

\* the geometry of the same parameters with the stem at the other face
OtherFace ==
    calculate_geometry(SetKey(params, "face_wall_position",
        IF params["face_wall_position"] = "toe_side" THEN "heel_side" ELSE "toe_side"))

C6_GeometrySums ==
    HasGeometry =>
        /\ geometry["B_base"] = geometry["B_toe"] + geometry["t_base"] + geometry["B_heel"]
        /\ geometry["H_total"] = geometry["h_wall_stem"] + geometry["D_f"]

\* C6 witness: an imperial heel-side geometry
C6_Witness ==
    /\ HasGeometry
    /\ params["face_wall_position"] = "heel_side"
    /\ params["units"] = "imperial"
    /\ geometry["t_base"] > 0
    /\ geometry["D_f"] > 0

\* two factors of safety agree within one percent
SameFactor(a, b) ==
    IF a = Infinity \/ b = Infinity THEN a = b ELSE Near(a, b, b \div 100 + 1)

\* C7: an imperial run yields the factors of safety of the metric run of the
\* same parameters, within a small tolerance.
C7_ImperialMatchesMetric ==
    pc = "done" /\ params["units"] = "imperial" =>
        LET metric == calculate_retaining_wall(SetKey(user_params, "units", "metric"),
                                               soil_properties, material_properties)
        IN  /\ metric["raised"] = "none"
            /\ \A k \in {"FS_overturning", "FS_sliding", "FS_bearing"} :
                  SameFactor(stability_results[k], metric[k])

\* the two results of the request: the first pass and the final one
Results == {first_pass, stability_results}

\* C8 as stated: with x_bar <= 0 the bearing factor of safety is +infinity.
C8_BearingInfiniteWhenResultantNonPositive ==
    HasResult => \A r \in Results : r["x_bar"] <= 0 => r["FS_bearing"] = Infinity

\* C8 amended: with x_bar <= 0, q_max is +infinity and FS_bearing, the
\* allowable pressure divided by q_max, is 0.
C8_BearingZeroWhenResultantNonPositive ==
    HasResult => \A r \in Results :
        r["x_bar"] <= 0 => r["q_max"] = Infinity /\ r["FS_bearing"] = 0

\* C8 witness: a result whose resultant lies at or behind the toe
C8_Witness ==
    /\ HasResult
    /\ stability_results["x_bar"] <= 0
    /\ geometry["B_base"] > 0

\* C9: with e = x_bar - B/2: inside the middle third q_max and q_min are
\* (V/B)(1 +- 6e/B), that is their sum is 2V/B and their difference 12Ve/B^2;
\* outside it q_min = 0 and q_max = 2V/(3 x_bar) when x_bar > 0, +infinity
\* when x_bar <= 0.
C9_BearingPressure ==
    HasResult => \A r \in Results :
        LET V == r["total_vertical_force"]
            B == geometry["B_base"]
            x_bar == r["x_bar"]
            e == r["e"]
        IN  /\ e = x_bar - B \div 2
            /\ IF Abs(e) * 6 <= B
               THEN /\ Near(r["q_max"] + r["q_min"], 2 * Div(V, B), 2)
                    /\ Near(Mul(r["q_max"] - r["q_min"], B), 12 * Mul(Div(V, B), e),
                            B \div 50 + Abs(e) \div 10 + 20)
               ELSE /\ r["q_min"] = 0
                    /\ IF x_bar > 0
                       THEN Near(Mul(r["q_max"], 3 * x_bar), 2 * V, (3 * x_bar) \div Scale + 2)
                       ELSE r["q_max"] = Infinity

\* C9 witness: a result outside the middle third with x_bar <= 0
C9_Witness ==
    /\ HasResult
    /\ Abs(stability_results["e"]) * 6 > geometry["B_base"]
    /\ stability_results["x_bar"] <= 0
    /\ stability_results["q_max"] = Infinity

\* C10: Pa_force = 0.5 * Pa_at_base * H_total, overturning_moment =
\* Pa_force * H_total / 3, and FS_overturning is resisting moment over
\* overturning moment, +infinity when the overturning moment is zero.
C10_Overturning ==
    HasResult => \A r \in Results :
        LET H == geometry["H_total"]
            Mo == r["overturning_moment"]
        IN  /\ Mo >= 0
            /\ Near(r["Pa_force"], Mul(r["Pa_at_base"], H) \div 2, H \div Scale + 1)
            /\ Near(Mo, Mul(r["Pa_force"], H) \div 3, r["Pa_force"] \div Scale + 2)
            /\ IF Mo = 0 THEN r["FS_overturning"] = Infinity
               ELSE Near(Mul(r["FS_overturning"], Mo), r["resisting_moment_about_toe"],
                         Mo \div Scale + 2)

\* C10 witness: a result with no overturning moment
C10_Witness ==
    /\ HasResult
    /\ stability_results["overturning_moment"] = 0
    /\ stability_results["FS_overturning"] = Infinity
    /\ stability_results["resisting_moment_about_toe"] > 0

\* tan(2/3 * phi) of the four friction angles of the soil table, to six decimals
TanTwoThirds(phi_deg) ==
    CASE phi_deg = 30000 -> 363970
      [] phi_deg = 25000 -> 299380
      [] phi_deg = 32000 -> 390554
      [] phi_deg = 38000 -> 473410

\* C11: FS_sliding = (V * tan(2/3 phi_active) + Pp_force + shear_key_resistance)
\* / (Pa_force - Pp_force) when the driving force Pa_force - Pp_force is > 0,
\* and +infinity when it is <= 0.
C11_Sliding ==
    HasResult => \A r \in Results :
        LET V == r["total_vertical_force"]
            drv == r["Pa_force"] - r["Pp_force"]
            res == MulK(V, TanTwoThirds(props["active_soil"]["friction_angle_deg"]))
                   + r["Pp_force"] + r["shear_key_resistance"]
        IN  /\ r["sliding_force"] = drv
            /\ Near(r["total_resisting_sliding_force"], res, V \div 50000 + 2)
            /\ IF drv > 0
               THEN Near(Mul(r["FS_sliding"], drv), res, V \div 50000 + drv \div Scale + 4)
               ELSE r["FS_sliding"] = Infinity

\* C11 witness: a result whose passive force exceeds the active force
C11_Witness ==
    /\ HasResult
    /\ stability_results["Pa_force"] > 0
    /\ stability_results["Pa_force"] < stability_results["Pp_force"]
    /\ stability_results["FS_sliding"] = Infinity

\* the allowable bearing pressure of the active soil in the request's units
Allowable ==
    IF params["units"] = "metric"
    THEN props["active_soil"]["allowable_bearing_pressure_kpa"]
    ELSE props["active_soil"]["allowable_bearing_pressure_psf"]

\* C12: FS_bearing is the allowable bearing pressure, in the request's unit
\* system, divided by q_max when q_max > 0 (0 for an infinite q_max), and
\* +infinity when q_max <= 0.
C12_Bearing ==
    HasResult => \A r \in Results :
        /\ IF r["q_max"] <= 0 THEN r["FS_bearing"] = Infinity
           ELSE IF r["q_max"] = Infinity THEN r["FS_bearing"] = 0
           ELSE Near(Mul(r["FS_bearing"], r["q_max"]), Allowable, r["q_max"] \div Scale + 2)
        /\ \A q \in {0, -Scale} : FS_bearing_of(params, props["active_soil"], q) = Infinity

\* C12 witness: an imperial result with a finite positive q_max
C12_Witness ==
    /\ HasResult
    /\ params["units"] = "imperial"
    /\ stability_results["q_max"] > 0
    /\ stability_results["q_max"] < Infinity
    /\ stability_results["FS_bearing"] > 0

\* angles in thousandths of a degree that calculate_ka is applied to
Angles == {5000, 15000, 25000, SlopeBetaDeg, 30000, 45000}

\* the request is past its first invocation of the stability analysis
Analysed == pc \in {"shear_key", "rebar", "done", "raised"} /\ calls >= 1

\* C13: calculate_ka with a non-zero slope beta above the friction angle phi
\* raises an error and returns no number; an analysis whose active soil has
\* phi below the fixed slope angle and whose active-side ground elevation
\* exceeds the wall height ends in an error, not a result.
C13_SlopeAboveFrictionFails ==
    /\ pc = "idle" => \A phi \in Angles : \A beta \in Angles :
          beta > phi => calculate_ka(phi, beta) = Raise("ValueError")
    /\ Analysed /\ geometry["active_side_slope_height"] > 0
                /\ props["active_soil"]["friction_angle_deg"] < SlopeBetaDeg
          => /\ pc = "raised"
             /\ stability_results["raised"] \in {"ValueError", "ZeroDivisionError"}
             /\ DOMAIN stability_results = {"raised"}

\* C13 witness: loose backfill under ground above the wall top, ended by the
\* error of the square root
C13_Witness ==
    /\ pc = "raised"
    /\ params["active_soil_type"] = "loose_backfill_soil"
    /\ stability_results["raised"] = "ValueError"
    /\ geometry["active_side_slope_height"] > 0
    /\ calculate_ka(30000, SlopeBetaDeg)["raised"] = "none"

\* the request's names that are no key of their reference table
UnknownNames ==
    { k \in {"active_soil_type", "passive_soil_type"} :
        params[k] \notin DOMAIN soil_properties_initial }
    \cup { k \in {"wall_material", "slab_material"} :
        params[k] \notin DOMAIN material_properties_initial
        /\ ~(k = "slab_material" /\ params[k] = "none") }

\* C14: a request whose active or passive soil type, wall material or
\* (non-"none") slab material is no key of its table ends in an error before
\* any stability result is produced; nothing is substituted.
C14_UnknownNameFails ==
    pc \notin {"idle", "convert"} /\ UnknownNames # {} =>
        /\ pc = "raised"
        /\ stability_results = [ raised |-> "KeyError" ]
        /\ calls = 0
        /\ first_pass = None
        /\ props = None

\* C14 witness: requests with an unknown slab material have ended in KeyError
C14_Witness ==
    /\ pc = "raised"
    /\ UnknownNames = {"slab_material"}
    /\ stability_results = [ raised |-> "KeyError" ]

\* lines 100-127 as a function of the overrides and the tables: the
\* reinforcement report of a request that reaches it
rebar_info_of(user, soils, materials) ==
    Let(convert_units(merge_params(user), soils, materials), LAMBDA c :
    Let(<<lookup_props(c.params, c.soils, c.materials), calculate_geometry(c.params)>>,
    LAMBDA pg :
        calculate_rebar_info(c.params, pg[2], pg[1]["wall_material_props"],
                             pg[1]["active_soil"], pg[2]["groundwater_level_below_base"])))

\* point loads and distances from the wall a twin request is given
PointLoads == { <<0, 0>>, <<200 * Scale, Scale \div 2>> }

\* the request's overrides with the point load pl
WithPointLoad(pl) ==
    Update(user_params, [ point_load_kn |-> pl[1], point_load_distance_from_wall_m |-> pl[2] ])

\* C15: requests that differ only in the point load and its distance from the
\* wall yield the same stability result and the same reinforcement report.
C15_PointLoadHasNoEffect ==
    pc = "done" => \A pl \in PointLoads :
        /\ calculate_retaining_wall(WithPointLoad(pl), soil_properties, material_properties)
               = stability_results
        /\ rebar_info_of(WithPointLoad(pl), soil_properties, material_properties) = rebar_info

\* C15 witness: a finished request with a point load on the backfill and a
\* reinforced stem
C15_Witness ==
    /\ pc = "done"
    /\ params["point_load_kn"] > 0
    /\ geometry["point_load"] > 0
    /\ stability_results["Pa_force"] > 0
    /\ rebar_info["kind"] = "concrete"

\* the request is finished and its wall is of concrete
Reinforced == pc = "done" /\ params["wall_material"] = "concrete"

\* cover (75 mm, 3 in) in the request's length unit, and effective depths in
\* mm or in
Cover == IF params["units"] = "metric" THEN 75 ELSE 250
DepthFactor == IF params["units"] = "metric" THEN 1000 ELSE 12
StemDepth == (geometry["t_base"] - Cover) * DepthFactor
SlabDepth == (geometry["D_f"] - Cover) * DepthFactor

\* C16: for a concrete wall, a stem effective depth (stem base width minus
\* cover) <= 0 gives the "Check dimensions" condition and no steel area; a
\* steel area is reported only for an effective depth > 0.
C16_NoAreaWithoutEffectiveDepth ==
    Reinforced =>
        /\ StemDepth <= 0 => rebar_info["stem"] = [ kind |-> "Check dimensions" ]
        /\ StemDepth > 0 => rebar_info["stem"]["kind"] = "As"
                            /\ rebar_info["stem"]["value"] >= 0
        /\ rebar_info["stem"]["kind"] \in {"As", "Check dimensions"}

\* C16 witness: stems as wide as the cover and narrower have been reported
C16_Witness ==
    /\ Reinforced
    /\ StemDepth = 0
    /\ geometry["t_base"] > 0
    /\ rebar_info["stem"]["kind"] = "Check dimensions"

\* the sections of the request with an effective depth: <<b, d, fc, fy>>
Sections ==
    LET w == props["wall_material_props"]
        strength == IF params["units"] = "metric"
                    THEN << w["f_c_prime_mpa"], w["f_y_mpa"] >>
                    ELSE << w["f_c_prime_psi"], w["f_y_psi"] >>
        b == IF params["units"] = "metric" THEN 1000 * Scale ELSE 12 * Scale
    IN  { << b, d, strength[1], strength[2] >> : d \in { x \in {StemDepth, SlabDepth} : x > 0 } }

\* factored moments: none, tiny, the nominal slab moment, moments of walls, and
\* one beyond the crushing of every section of the model
Moments == { 0, 1, 10 * Scale, 260 * Scale, 5000 * Scale, 20000 * Scale, 10^9 }

\* (0.85 * fc / fy) * b * d
AsMax(sec) == MulK(Mul(sec[1], sec[2]), DivK((85 * sec[3]) \div 100, sec[4]))

\* C17: calculate_rebar_area does not fail on a large moment: with the
\* radicand clamped to 0 the result is (0.85*fc/fy)*b*d, and for every
\* Mu >= 0 and positive b, d, fc, fy, 0 <= As <= (0.85*fc/fy)*b*d.
C17_AreaBounded ==
    Reinforced => \A sec \in Sections :
        /\ \A Mu \in Moments :
              LET As == calculate_rebar_area(Mu, sec[1], sec[2], sec[3], sec[4])
              IN  As >= 0 /\ As <= AsMax(sec)
        /\ calculate_rebar_area(0, sec[1], sec[2], sec[3], sec[4]) = 0
        /\ calculate_rebar_area(10^9, sec[1], sec[2], sec[3], sec[4]) = AsMax(sec)
        /\ AsMax(sec) > 0

\* C17 witness: the stem moment of the request is beyond crushing and the
\* report holds the clamped area
C17_Witness ==
    /\ Reinforced
    /\ StemDepth > 0
    /\ rebar_info["stem"]["value"]
           = Format2f(AsMax(CHOOSE sec \in Sections : sec[2] = StemDepth))
    /\ rebar_info["stem"]["value"] > 0

\* the value the merge gives key k: the override if supplied, else the default
Merged(k) == IF k \in DOMAIN user_params THEN user_params[k] ELSE default_params[k]

\* the imperial twin fields convert_units adds
TwinFields ==
    { "wall_height_ft", "foundation_depth_ft", "toe_length_ft", "heel_length_ft",
      "wall_top_width_ft", "wall_base_width_ft", "groundwater_level_ft_below_base",
      "shear_key_depth_ft", "shear_key_width_ft", "active_side_ground_elevation_ft",
      "passive_side_ground_elevation_ft", "point_load_lb",
      "point_load_distance_from_wall_ft", "surcharge_load_psf",
      "foundation_lower_than_passive_side_ft" }

\* the fields of the parameter object once unit conversion is done
FieldsAfterConversion ==
    pc \notin {"idle", "convert"} =>
        DOMAIN params = DOMAIN default_params \cup {"units_display"}
                        \cup (IF params["units"] = "imperial" THEN TwinFields ELSE {})

\* C18 as stated: the request's parameter object holds, for every key of the
\* defaults, the override if one was supplied and the default otherwise, and
\* unit conversion only adds twin fields.
C18_ParamsAreDefaultsWithOverrides ==
    /\ pc # "idle" => \A k \in DOMAIN default_params : params[k] = Merged(k)
    /\ FieldsAfterConversion

\* C18 amended: the same for every key but shear_key_used, which holds true
\* once the shear key automation has re-run the analysis and the merged value
\* otherwise.
C18_ParamsExceptShearKeyUsed ==
    /\ pc # "idle" =>
          /\ \A k \in DOMAIN default_params \ {"shear_key_used"} : params[k] = Merged(k)
          /\ params["shear_key_used"] = (Merged("shear_key_used") \/ calls = 2)
    /\ FieldsAfterConversion

\* C18 witness: a finished request with overrides that the automation re-ran
C18_Witness ==
    /\ pc = "done"
    /\ calls = 2
    /\ DOMAIN user_params # {}
    /\ ~Merged("shear_key_used")
    /\ params["shear_key_used"]

\* C19: a request, metric or imperial, leaves the module-level reference
\* tables as they were initially, every per-soil and per-material entry
\* included.
C19_ReferenceDataUnchanged ==
    /\ soil_properties = soil_properties_initial
    /\ material_properties = material_properties_initial

\* what the request returns when it runs alone from the initial tables
Alone == calculate_retaining_wall(user_params, soil_properties_initial,
                                  material_properties_initial)

\* C20: a request interleaved with other requests, metric or imperial,
\* returns the factors of safety and the bearing pressure it returns alone
\* from the initial state (and fails as it fails alone).
C20_SameResultAmongRequests ==
    /\ pc = "done" =>
          /\ Alone["raised"] = "none"
          /\ \A k \in {"FS_overturning", "FS_sliding", "FS_bearing", "q_max", "q_min"} :
                stability_results[k] = Alone[k]
    /\ pc = "raised" => stability_results = Alone

\* C20 witness: a request has finished on tables that other requests have
\* converted in part
C20_Witness ==
    /\ pc = "done"
    /\ Written(ConversionWrites[3])
    /\ ~Written(ConversionWrites[Len(ConversionWrites)])

\* depths at which the pressure functions are evaluated
Heights == { 0, 500, 1500, 6000 }

\* gamma * height * Ka(phi) of a soil
GammaHeightKa(soil, height) ==
    MulK(Mul(soil["unit_weight_kn_m3"], height), calculate_ka(soil["friction_angle_deg"], 0).v)

\* C21: with no surcharge, no groundwater table above the evaluated depth and
\* no backfill slope, the active pressure is exactly gamma * height * Ka(phi).
C21_DryLevelUnloadedPressure ==
    /\ pc = "idle" =>
          \A name \in DOMAIN soil_properties : \A h \in Heights :
          \A gw \in { <<>>, <<h>>, <<h + Scale>> } :
             calculate_earth_pressure(soil_properties[name], h, gw, TRUE, 0, 0)
                = Ok(GammaHeightKa(soil_properties[name], h))
    /\ HasResult /\ geometry["surcharge_load"] = 0
                 /\ geometry["active_side_slope_height"] = 0
                 /\ geometry["H_total"] <= geometry["D_f"] + geometry["groundwater_level_below_base"]
          => stability_results["Pa_at_base"] = GammaHeightKa(props["active_soil"], geometry["H_total"])

\* C21 witness: an analysed wall on level, unloaded backfill whose groundwater
\* table lies below the base, under a positive active pressure
C21_Witness ==
    /\ HasResult
    /\ geometry["surcharge_load"] = 0
    /\ geometry["active_side_slope_height"] = 0
    /\ geometry["H_total"] <= geometry["D_f"] + geometry["groundwater_level_below_base"]
    /\ stability_results["Pa_at_base"] > 0

\* friction angles up to 87.5 degrees, and one a thousandth of a degree
\* below 90
FrictionAngles ==
    { 1, 1000, 5000, 10000, 25000, 30000, 32000, 38000, 45000, 60000, 70000, 80000,
      85000, 87000, 87500 }
NearlyVertical == 90 * Scale - 1

\* the tolerance of the product Ka * Kp on the coefficients
Tolerance == KScale \div 500

\* Ka(phi) * Kp(phi) is 1 within the tolerance; a Ka that has underflowed to 0
\* makes the product 0 whatever the finite Kp is
SymmetricAt(phi) ==
    LET ka == calculate_ka(phi, 0)
    IN  /\ ka.raised = "none"
        /\ ka.v # 0
        /\ Near(MulK(ka.v, calculate_kp(phi)), KScale, Tolerance)

\* the friction angles of the soils the request has looked up
RequestAngles ==
    IF "active_soil" \in DOMAIN props
    THEN { props["active_soil"]["friction_angle_deg"],
           props["passive_soil"]["friction_angle_deg"] }
    ELSE {}

Structural(name) ==
    /\ name \in DOMAIN material_properties
    /\ {"f_c_prime_mpa", "f_y_mpa"} \subseteq DOMAIN material_properties[name]

\* passive pressure at depth h for the request's passive soil and groundwater
Pp(h) ==
    calculate_earth_pressure(props["passive_soil"], h,
                             <<geometry["D_f"] + geometry["groundwater_level_below_base"]>>,
                             FALSE, 0, 0).v

\* the request has a key that counts: enabled, under a structural slab, not
\* at the heel
KeyCounts ==
    /\ params["shear_key_used"]
    /\ Structural(params["slab_material"])
    /\ params["shear_key_position"] # "heel"

\* C23: shear_key_resistance is non-zero only with an enabled key under a
\* structural slab and not at the heel, and is then the trapezoidal
\* passive-pressure area 0.5 * (Pp(D_f) + Pp(D_f + depth)) * depth.
C23_ShearKeyResistance ==
    HasResult =>
        /\ stability_results["shear_key_resistance"] # 0 => KeyCounts
        /\ KeyCounts =>
              stability_results["shear_key_resistance"]
                 = Mul((Pp(geometry["D_f"]) + Pp(geometry["D_f"] + geometry["shear_key_depth"]))
                          \div 2, geometry["shear_key_depth"])

\* C23 witness: a key that counts and resists
C23_Witness ==
    /\ HasResult
    /\ KeyCounts
    /\ stability_results["shear_key_resistance"] > 0

ValidSlope ==
    ~ /\ geometry["active_side_slope_height"] > 0
      /\ props["active_soil"]["friction_angle_deg"] < SlopeBetaDeg

\* C25: with known names, non-negative dimensions and a valid slope and
\* friction angle, perform_stability_analysis returns a result and raises
\* nothing, a division error least of all.
C25_AnalysisIsTotal ==
    Analysed /\ ValidSlope => stability_results["raised"] = "none"

\* the active pressure of the request's analysis, had the surcharge been q
ActivePressureUnder(q) ==
    calculate_earth_pressure(props["active_soil"], geometry["H_total"],
                             <<geometry["D_f"] + geometry["groundwater_level_below_base"]>>,
                             TRUE, q, geometry["active_side_slope_height"]).v

\* the active coefficient K of the request's analysis
ActiveK ==
    calculate_ka(props["active_soil"]["friction_angle_deg"],
                 IF geometry["active_side_slope_height"] > 0 THEN SlopeBetaDeg ELSE 0).v

\* C26: the active pressure contains the term surcharge * K at every depth,
\* below the groundwater table too, and a larger surcharge gives another
\* pressure while K > 0.
C26_SurchargeAtEveryDepth ==
    HasResult =>
        /\ stability_results["Pa_at_base"]
              = ActivePressureUnder(0) + MulK(geometry["surcharge_load"], ActiveK)
        /\ ActiveK > 0 =>
              ActivePressureUnder(geometry["surcharge_load"] + 10 * Scale)
                 # stability_results["Pa_at_base"]

\* the fields of the result that the shear key enters
KeyFields == { "shear_key_resistance", "total_resisting_sliding_force", "FS_sliding" }

\* the request has been analysed twice
Rerun2 == calls = 2 /\ pc \in {"rebar", "done"}

\* C27: the re-run's result differs from the first pass's at most in
\* shear_key_resistance, total_resisting_sliding_force and FS_sliding, its
\* FS_sliding is not lower, and it equals the first result when the key was
\* already enabled or is at the heel.
C27_RerunChangesSlidingOnly ==
    Rerun2 =>
        /\ DOMAIN stability_results = DOMAIN first_pass
        /\ \A k \in DOMAIN first_pass \ KeyFields : stability_results[k] = first_pass[k]
        /\ stability_results["FS_sliding"] >= first_pass["FS_sliding"]
        /\ Merged("shear_key_used") \/ params["shear_key_position"] = "heel"
              => stability_results = first_pass

\* C27 witness: a re-run that raised the factor of safety against sliding
C27_Witness ==
    /\ Rerun2
    /\ stability_results["FS_sliding"] > first_pass["FS_sliding"]
    /\ stability_results["shear_key_resistance"] > 0

\* C28: in every result q_max >= q_min >= 0: the value reported as q_max and
\* used for FS_bearing is the larger edge pressure, on whichever side of the
\* base centreline the resultant falls.
C28_MaxIsTheLargerEdgePressure ==
    HasResult => \A r \in Results : r["q_max"] >= r["q_min"] /\ r["q_min"] >= 0

\* what the test re-implementation gives for the request's overrides
ForTest ==
    calculate_retaining_wall_for_test(user_params, soil_properties_initial,
                                      material_properties_initial)

\* C29: calculate_retaining_wall_for_test returns the FS_overturning,
\* FS_sliding, FS_bearing and q_max that calculate_retaining_wall returns.
C29_TestMatchesProduction ==
    pc = "done" =>
        /\ ForTest["raised"] = "none"
        /\ \A k \in {"FS_overturning", "FS_sliding", "FS_bearing", "q_max"} :
              ForTest[k] = stability_results[k]

\* C30: the reinforcement estimate evaluates the active pressure at the stem
\* base with the groundwater depth (foundation depth + offset below the base)
\* and the backfill slope that the stability analysis of the request uses.
C30_EstimatorUsesAnalysisConditions ==
    pc = "done" /\ Reinforced =>
        Pa_at_stem_base_of(geometry, props["active_soil"],
                           geometry["groundwater_level_below_base"])
           = calculate_earth_pressure(props["active_soil"], geometry["h_wall_stem"],
                                      <<geometry["D_f"] + geometry["groundwater_level_below_base"]>>,
                                      TRUE, geometry["surcharge_load"],
                                      geometry["active_side_slope_height"])

====
